---- MODULE Spec2Model ----
(***************************************************************************)
(* Model of predict_cond.py (Predict Conductivity tool).                   *)
(*                                                                         *)
(* One invocation of the script is a run of main(): it validates the join  *)
(* key, shells out to the R scoring script, converts predicted_cond.csv to *)
(* a dbf table, joins it to an in_memory copy of the stream network,       *)
(* writes the output feature class, strips fields, writes the run          *)
(* metadata, optionally exports to a Riverscapes project, and cleans up.   *)
(* The output directory and the in_memory workspace outlive a run, so the  *)
(* model keeps them across successive invocations.                         *)
(***************************************************************************)
EXTENDS Integers, Sequences, FiniteSets, TLC

\* ---- bounds ------------------------------------------------------------
NumSeg == 2       \* stream segments in the input feature class
MaxKey == 1       \* join keys the parameter table may hold
MaxCov == 1       \* distinct covariate values of a parameter row

\* ---- values ------------------------------------------------------------
Null == -1        \* a null cell
OldVal == 0       \* value of an attribute the input feature class already carries
Ok == 0           \* error_code written by the scoring script for a scored row

LineOIDOf(i) == 10 * i              \* join key of the i-th segment
Geom(i) == 100 + i                  \* geometry of the i-th segment
Keys == {LineOIDOf(k) : k \in 1..MaxKey}

NoFile == [exists |-> FALSE, fields |-> {}, rows |-> <<>>]

\* arcpy field objects: the model keeps the name, the type follows from it
FieldType(name) ==
  IF name = "Shape" THEN "Geometry"
  ELSE IF name \in {"OBJECTID", "OID"} THEN "OID"
  ELSE "Double"

\* ---- inputs (GetParameterAsText 0..4) -----------------------------------
InExtraFields == {"prdCond", "Junk"}

MkFC(hasKey, extras) ==
  LET flds == {"OBJECTID", "Shape"} \cup (IF hasKey THEN {"LineOID"} ELSE {}) \cup extras
  IN [exists |-> TRUE,
      fields |-> flds,
      rows   |-> [i \in 1..NumSeg |->
                    [f \in flds |->
                       IF f = "OBJECTID" THEN i
                       ELSE IF f = "Shape" THEN Geom(i)
                       ELSE IF f = "LineOID" THEN LineOIDOf(i)
                       ELSE OldVal]]]

FeatureClasses == {MkFC(h, e) : h \in BOOLEAN, e \in SUBSET InExtraFields}

\* a parameter table: one covariate summary per join key it holds
ParamTables == UNION {[K -> 1..MaxCov] : K \in SUBSET Keys}

RsBoolValues == {"true", "false"}
WorkspaceTypes == {"LocalDatabase", "FileSystem"}

\* ---- checkLineOID ------------------------------------------------------
\* arcpy.ListFields(in_fc, wild_card)
ListFields(fc, wild) == {f \in fc.fields : f = wild}

checkLineOID_noLoopDefault(fc) ==
  LET fieldName == "LineOID"
      fields == ListFields(fc, fieldName)
  IN IF fields = {} THEN "True"
     ELSE IF (CHOOSE f \in fields : TRUE) = fieldName THEN "True" ELSE "False"

\* returns True / False from the first listed field, None when the list is empty
checkLineOID(fc) ==
  LET fieldName == "LineOID"
      fields == ListFields(fc, fieldName)
  IN IF fields = {} THEN "None"
     ELSE IF (CHOOSE f \in fields : TRUE) = fieldName THEN "True" ELSE "False"

\* ---- removeFields ------------------------------------------------------
DeleteField(fc, names) ==
  LET keep == fc.fields \ names
  IN [fc EXCEPT !.fields = keep,
                !.rows = [i \in 1..Len(fc.rows) |-> [f \in keep |-> fc.rows[i][f]]]]

removeFields_noErrorCode(fc) ==
  DeleteField(fc, {f \in fc.fields :
                     /\ FieldType(f) # "Geometry"
                     /\ FieldType(f) # "OID"
                     /\ f # "LineOID"
                     /\ f # "prdCond"})

removeFields(fc) ==
  DeleteField(fc, {f \in fc.fields :
                     /\ FieldType(f) # "Geometry"
                     /\ FieldType(f) # "OID"
                     /\ f # "LineOID"
                     /\ f # "error_code"
                     /\ f # "prdCond"})

\* ---- the external scoring script (condRF.R) ------------------------------
RECURSIVE SortedSeq(_)
SortedSeq(S) ==
  IF S = {} THEN <<>>
  ELSE LET m == CHOOSE x \in S : \A y \in S : x <= y
       IN <<m>> \o SortedSeq(S \ {m})

RF(cov) == 500 + cov    \* the trained model, a fixed function of the covariates

PredFields == {"LineOID", "error_code", "prdCond"}

\* predicted_cond.csv: one row per parameter row
condRF(params) ==
  LET ks == SortedSeq(DOMAIN params)
  IN [exists |-> TRUE,
      fields |-> PredFields,
      rows   |-> [i \in 1..Len(ks) |->
                    [f \in PredFields |->
                       IF f = "LineOID" THEN ks[i]
                       ELSE IF f = "error_code" THEN Ok
                       ELSE RF(params[ks[i]])]]]

\* ---- geoprocessing tools ------------------------------------------------
\* TableToTable_conversion: csv -> dbf, the dbf gains an OID column
TableToTable(tbl) ==
  LET flds == tbl.fields \cup {"OID"}
  IN [exists |-> TRUE,
      fields |-> flds,
      rows   |-> [i \in 1..Len(tbl.rows) |->
                    [f \in flds |-> IF f = "OID" THEN i - 1 ELSE tbl.rows[i][f]]]]

FeatureClassToFeatureClass_keepExisting(src, existing) ==
  IF existing.exists THEN existing ELSE src

\* copy into in_memory\in_fc_tmp; arcpy.env.overwriteOutput = True replaces
\* whatever an earlier run left under that name
FeatureClassToFeatureClass(src, existing) ==
  [exists |-> TRUE, fields |-> src.fields, rows |-> src.rows]

\* name given to a joined field: suffixed when the name is taken
UniqueName(f, taken) ==
  IF f \notin taken THEN f
  ELSE IF (f \o "_1") \notin taken THEN f \o "_1"
  ELSE IF (f \o "_12") \notin taken THEN f \o "_12"
  ELSE f \o "_12_13"

\* JoinField_management(in_data, in_field, join_table, join_field): every
\* non-OID field of the join table is added to in_data; a row takes the values
\* of the first join row with the same key, null when there is none
JoinField(in_data, in_field, join_table, join_field) ==
  LET jf      == {f \in join_table.fields : FieldType(f) # "OID"}
      newName == [f \in jf |-> UniqueName(f, in_data.fields)]
      added   == {newName[f] : f \in jf}
      flds    == in_data.fields \cup added
      src(g)  == CHOOSE f \in jf : newName[f] = g
      match(r) == {j \in 1..Len(join_table.rows) :
                     join_table.rows[j][join_field] = r[in_field]}
      first(r) == CHOOSE j \in match(r) : \A k \in match(r) : j <= k
  IN [exists |-> TRUE,
      fields |-> flds,
      rows   |-> [i \in 1..Len(in_data.rows) |->
                    [g \in flds |->
                       IF g \in in_data.fields THEN in_data.rows[i][g]
                       ELSE IF match(in_data.rows[i]) = {} THEN Null
                       ELSE join_table.rows[first(in_data.rows[i])][src(g)]]]]

CopyFeatures(src) == [exists |-> TRUE, fields |-> src.fields, rows |-> src.rows]


\* ---- run metadata (meta_sfr.MetadataWriter) ------------------------------
NoRun == [run |-> "none", params |-> 0, status |-> "", files |-> 0]

\* MetadataWriter(...), createRun(), four addParameter calls
createRun == [run |-> "created", params |-> 4, status |-> "", files |-> 0]

finalizeRun(mw, status) == [mw EXCEPT !.run = "finalized", !.status = status]

writeMetadataFile_skipped(mw) == mw

writeMetadataFile(mw) == [mw EXCEPT !.files = @ + 1]

\* ---- project mode --------------------------------------------------------
IsProjectMode_truthy(rsb) == rsb # ""

\* rs_bool == "true"
IsProjectMode(rsb) == rsb = "true"

\* in_shp_name is bound only when the input workspace is a local database
InShpNameBound(wsType) == wsType = "LocalDatabase"

\* ---- state ---------------------------------------------------------------
VARIABLES
  pc,            \* position of the script
  in_fc,         \* input stream network
  in_params,     \* parameter table
  rs_bool,       \* project-mode flag (text)
  in_fc_type,    \* workspaceType of the input's directory
  csv,           \* out_dir\predicted_cond.csv
  dbf,           \* out_dir\predicted_cond.dbf
  in_fc_tmp,     \* in_memory\in_fc_tmp
  out_fc,        \* output feature class
  mWriter,       \* run metadata record
  projectXML,    \* TRUE when the ProjectXML object of this run exists
  copied,        \* files this run copied into the project tree
  xmlWritten,    \* XML files this run wrote
  steps,         \* steps this run performed
  rOutcome,      \* how the scoring process of this run ended
  exitStatus,    \* how this run ended
  startedClear,  \* the run began with an empty output location
  lastOut,       \* output of the last finished run that began with an empty output location
  prevOut        \* lastOut, when this run repeats that run's inputs from an empty output location

vars == <<pc, in_fc, in_params, rs_bool, in_fc_type, csv, dbf, in_fc_tmp, out_fc,
          mWriter, projectXML, copied, xmlWritten, steps, rOutcome, exitStatus,
          startedClear, lastOut, prevOut>>

inputs == <<in_fc, in_params, rs_bool, in_fc_type>>
files == <<csv, dbf, in_fc_tmp, out_fc>>
history == <<startedClear, lastOut, prevOut>>

Ended == {"exit0", "crashed", "done"}

OutputLocationClear == ~csv.exists /\ ~dbf.exists /\ ~out_fc.exists

Init ==
  /\ pc = "main"
  /\ in_fc \in FeatureClasses
  /\ in_params \in ParamTables
  /\ rs_bool \in RsBoolValues
  /\ in_fc_type \in WorkspaceTypes
  /\ csv = NoFile /\ dbf = NoFile /\ in_fc_tmp = NoFile /\ out_fc = NoFile
  /\ mWriter = NoRun
  /\ projectXML = FALSE
  /\ copied = {}
  /\ xmlWritten = {}
  /\ steps = {}
  /\ rOutcome = "none"
  /\ exitStatus = "running"
  /\ startedClear = TRUE
  /\ lastOut = NoFile
  /\ prevOut = NoFile

\* lines 128-145: paths, workspace type, run metadata record
Setup ==
  /\ pc = "main"
  /\ mWriter' = createRun
  /\ pc' = "check"
  /\ UNCHANGED <<inputs, files, projectXML, copied, xmlWritten, steps, rOutcome,
                 exitStatus, history>>

\* lines 147-154 and 213-215: the join-key check and its two branches
Validate ==
  /\ pc = "check"
  /\ IF checkLineOID(in_fc) = "True"
     THEN /\ projectXML' = IsProjectMode(rs_bool)
          /\ pc' = "rscript"
          /\ UNCHANGED <<steps, exitStatus>>
     ELSE /\ steps' = steps \cup {"AddError"}
          /\ exitStatus' = "0"
          /\ pc' = "exit0"
          /\ UNCHANGED projectXML
  /\ UNCHANGED <<inputs, files, mWriter, copied, xmlWritten, rOutcome, history>>

\* lines 156-170: Rscript condRF.R model out_dir in_params; wait; no return code read
RunRscript ==
  /\ pc = "rscript"
  /\ \E ok \in BOOLEAN :
       /\ csv' = IF ok THEN condRF(in_params) ELSE csv
       /\ rOutcome' = IF ok THEN "ok" ELSE "failed"
  /\ steps' = steps \cup {"Rscript"}
  /\ pc' = "convert"
  /\ UNCHANGED <<inputs, dbf, in_fc_tmp, out_fc, mWriter, projectXML, copied,
                 xmlWritten, exitStatus, history>>

\* lines 173-174: TableToTable_conversion, raises when the csv is missing
ConvertTable ==
  /\ pc = "convert"
  /\ IF csv.exists
     THEN /\ dbf' = TableToTable(csv)
          /\ steps' = steps \cup {"TableToTable"}
          /\ pc' = "join"
          /\ UNCHANGED exitStatus
     ELSE /\ exitStatus' = "error"
          /\ pc' = "crashed"
          /\ UNCHANGED <<dbf, steps>>
  /\ UNCHANGED <<inputs, csv, in_fc_tmp, out_fc, mWriter, projectXML, copied,
                 xmlWritten, rOutcome, history>>

\* lines 177-185: scratch copy, join, export of the joined layer, removeFields
JoinPredictions ==
  /\ pc = "join"
  /\ LET tmp == FeatureClassToFeatureClass(in_fc, in_fc_tmp)
     IN IF "LineOID" \in tmp.fields
        THEN LET joined == JoinField(tmp, "LineOID", dbf, "LineOID")
             IN /\ in_fc_tmp' = joined
                /\ out_fc' = removeFields(CopyFeatures(joined))
                /\ steps' = steps \cup {"JoinField", "CopyFeatures"}
                /\ pc' = "record"
                /\ UNCHANGED exitStatus
        ELSE /\ in_fc_tmp' = tmp
             /\ exitStatus' = "error"
             /\ pc' = "crashed"
             /\ UNCHANGED <<out_fc, steps>>
  /\ UNCHANGED <<inputs, csv, dbf, mWriter, projectXML, copied, xmlWritten,
                 rOutcome, history>>

\* lines 187-190: finalize and write the generic metadata file
WriteRunMetadata ==
  /\ pc = "record"
  /\ mWriter' = writeMetadataFile(finalizeRun(mWriter, "Success"))
  /\ xmlWritten' = xmlWritten \cup {"meta_predict"}
  /\ pc' = IF IsProjectMode(rs_bool) THEN "export" ELSE "cleanup"
  /\ UNCHANGED <<inputs, files, projectXML, copied, steps, rOutcome, exitStatus, history>>

\* lines 193-200: copy input and output into the project tree
CopyToProject ==
  /\ pc = "export"
  /\ copied' = {"in_fc", "out_fc"}
  /\ pc' = "lineage"
  /\ UNCHANGED <<inputs, files, mWriter, projectXML, xmlWritten, steps, rOutcome,
                 exitStatus, history>>

\* lines 201-204: relative paths and metadata(); line 202 reads in_shp_name
WriteProjectXML ==
  /\ pc = "lineage"
  /\ IF InShpNameBound(in_fc_type)
     THEN /\ xmlWritten' = xmlWritten \cup {"project.rs"}
          /\ pc' = "cleanup"
          /\ UNCHANGED exitStatus
     ELSE /\ exitStatus' = "error"
          /\ pc' = "crashed"
          /\ UNCHANGED xmlWritten
  /\ UNCHANGED <<inputs, files, mWriter, projectXML, copied, steps, rOutcome, history>>

\* lines 206-211: clear_inmemory and deletion of the prediction table files
CleanUp ==
  /\ pc = "cleanup"
  /\ in_fc_tmp' = NoFile
  /\ dbf' = NoFile
  /\ csv' = NoFile
  /\ steps' = steps \cup {"clear"}
  /\ exitStatus' = "return"
  /\ pc' = "done"
  /\ lastOut' = IF startedClear THEN out_fc ELSE NoFile
  /\ UNCHANGED <<inputs, out_fc, mWriter, projectXML, copied, xmlWritten, rOutcome,
                 startedClear, prevOut>>

\* the user empties the output location between two runs
ClearOutputDir ==
  /\ pc \in Ended
  /\ ~OutputLocationClear
  /\ csv' = NoFile /\ dbf' = NoFile /\ out_fc' = NoFile
  /\ UNCHANGED <<pc, inputs, in_fc_tmp, mWriter, projectXML, copied, xmlWritten,
                 steps, rOutcome, exitStatus, history>>

\* lines 23-28 and 218-219: the tool is run again in the same session
Invoke ==
  /\ pc \in Ended
  /\ \E fc \in FeatureClasses, par \in ParamTables,
        rsb \in RsBoolValues, wst \in WorkspaceTypes :
       /\ in_fc' = fc /\ in_params' = par /\ rs_bool' = rsb /\ in_fc_type' = wst
       /\ prevOut' = IF /\ <<fc, par, rsb, wst>> = inputs
                        /\ pc = "done" /\ startedClear /\ OutputLocationClear
                     THEN lastOut ELSE NoFile
  /\ startedClear' = OutputLocationClear
  /\ lastOut' = NoFile
  /\ pc' = "main"
  /\ mWriter' = NoRun
  /\ projectXML' = FALSE
  /\ copied' = {}
  /\ xmlWritten' = {}
  /\ steps' = {}
  /\ rOutcome' = "none"
  /\ exitStatus' = "running"
  /\ UNCHANGED files

Next ==
  \/ Setup
  \/ Validate
  \/ RunRscript
  \/ ConvertTable
  \/ JoinPredictions
  \/ WriteRunMetadata
  \/ CopyToProject
  \/ WriteProjectXML
  \/ CleanUp
  \/ ClearOutputDir
  \/ Invoke

Spec == Init /\ [][Next]_vars

\* ---- properties -----------------------------------------------------------
OutputWritten == "CopyFeatures" \in steps /\ out_fc.exists

KeysOf(tbl) == {tbl.rows[j]["LineOID"] : j \in 1..Len(tbl.rows)}

\* C1: a run on an input without a LineOID field starts no scoring process,
\* converts and joins nothing, writes no output feature class and no XML file,
\* reports the error and ends with exit status 0.
C1_MissingKeyAborts ==
  "LineOID" \notin in_fc.fields =>
    /\ pc \in {"main", "check", "exit0"}
    /\ steps \subseteq {"AddError"}
    /\ rOutcome = "none"
    /\ xmlWritten = {}
    /\ copied = {}
    /\ ~projectXML
    /\ pc = "exit0" => "AddError" \in steps /\ exitStatus = "0"

C1_Witness ==
  /\ pc = "exit0"
  /\ "LineOID" \notin in_fc.fields
  /\ "AddError" \in steps
  /\ exitStatus = "0"

\* C2 (as stated): the output left by removeFields has exactly the geometry,
\* LineOID, error_code and prdCond fields and no other field.
C2_ExactlyFourFields ==
  OutputWritten => out_fc.fields = {"Shape", "LineOID", "error_code", "prdCond"}

\* C2 (amended): the output left by removeFields has exactly the object-ID
\* field, the geometry field, LineOID, error_code and prdCond, whatever extra
\* fields the input and the joined table brought in.
C2_RetainedFields ==
  OutputWritten =>
    /\ out_fc.fields = {"OBJECTID", "Shape", "LineOID", "error_code", "prdCond"}
    /\ \A i \in 1..Len(out_fc.rows) : DOMAIN out_fc.rows[i] = out_fc.fields

C2_Witness ==
  /\ OutputWritten
  /\ "Junk" \in in_fc.fields
  /\ in_fc_tmp.exists
  /\ {"Junk", "LineOID_1"} \subseteq in_fc_tmp.fields
  /\ out_fc.fields = {"OBJECTID", "Shape", "LineOID", "error_code", "prdCond"}

\* C3: every output segment whose LineOID is in the prediction table carries
\* the prdCond value that table holds for that LineOID.
C3_MatchedValueJoined ==
  (OutputWritten /\ dbf.exists) =>
    \A i \in 1..Len(out_fc.rows) : \A j \in 1..Len(dbf.rows) :
      dbf.rows[j]["LineOID"] = out_fc.rows[i]["LineOID"]
        => out_fc.rows[i]["prdCond"] = dbf.rows[j]["prdCond"]

\* C4: every input segment is in the output (left join), and a segment whose
\* LineOID is not in the prediction table has a null prdCond.
C4_UnmatchedIsNull ==
  (OutputWritten /\ dbf.exists) =>
    /\ Len(out_fc.rows) = Len(in_fc.rows)
    /\ \A i \in 1..Len(in_fc.rows) :
         \E o \in 1..Len(out_fc.rows) :
           /\ out_fc.rows[o]["LineOID"] = in_fc.rows[i]["LineOID"]
           /\ out_fc.rows[o]["Shape"] = in_fc.rows[i]["Shape"]
           /\ in_fc.rows[i]["LineOID"] \notin KeysOf(dbf)
                => out_fc.rows[o]["prdCond"] = Null

\* C5: when the scoring process fails, the table conversion raises on the
\* missing csv and the run dies there: no join, no output, no metadata file.
C5_FailedScoringIsFatal ==
  (rOutcome = "failed" /\ pc # "convert") =>
    /\ pc = "crashed"
    /\ exitStatus = "error"
    /\ steps \cap {"TableToTable", "JoinField", "CopyFeatures"} = {}
    /\ xmlWritten = {}

\* C6: a project-mode run that has copied the input and the output into the
\* project tree ends with the lineage document written.
C6_LineageAfterCopies ==
  (pc \in Ended /\ rs_bool = "true" /\ copied = {"in_fc", "out_fc"})
    => "project.rs" \in xmlWritten

\* C7: with project mode off a run creates no lineage object, copies nothing
\* into a project tree and writes no XML other than the run-metadata file.
C7_NoProjectArtifacts ==
  rs_bool # "true" =>
    /\ ~projectXML
    /\ copied = {}
    /\ xmlWritten \subseteq {"meta_predict"}
    /\ pc \notin {"export", "lineage"}
    /\ pc = "done" => xmlWritten = {"meta_predict"}

C7_Witness ==
  /\ rs_bool # "true"
  /\ pc = "done"
  /\ xmlWritten = {"meta_predict"}
  /\ ~projectXML

C9_NothingLeftBehind ==
  pc \in Ended =>
    /\ "JoinField" \in steps => ~in_fc_tmp.exists
    /\ "TableToTable" \in steps => ~csv.exists /\ ~dbf.exists

\* C10 (as stated): the run metadata is finalized only after every other
\* step, project export and cleanup included.
C10_FinalizedLast ==
  mWriter.run = "finalized" =>
    /\ "clear" \in steps
    /\ rs_bool = "true" => "project.rs" \in xmlWritten

\* C10 (amended): the run metadata record exists from the start of the run,
\* before the join-key check; it is finalized with "Success" and written right
\* after removeFields, before project export and cleanup; it is written at most
\* once in a run, exactly once in a run that reaches the end, and never in a
\* run stopped by the join-key check.
C10_FinalizedAfterJoin ==
  /\ pc # "main" => mWriter.run \in {"created", "finalized"} /\ mWriter.params = 4
  /\ mWriter.files <= 1
  /\ mWriter.run = "finalized" <=> mWriter.files = 1
  /\ mWriter.run = "finalized" <=> "meta_predict" \in xmlWritten
  /\ mWriter.run = "finalized" => mWriter.status = "Success" /\ "CopyFeatures" \in steps
  /\ (copied # {} \/ "project.rs" \in xmlWritten \/ "clear" \in steps) => mWriter.files = 1
  /\ pc = "done" => mWriter.files = 1
  /\ pc = "exit0" => mWriter.files = 0

C10_Witness ==
  /\ mWriter.run = "finalized"
  /\ mWriter.status = "Success"
  /\ mWriter.files = 1
  /\ "clear" \notin steps
  /\ pc = "crashed"

====
